---- MODULE Spec2Model ----
(***************************************************************************)
(* Model of minijinja's macro layer (crates/dbt-jinja/minijinja/src/       *)
(* macros.rs): the expansion of context!, args! and render!, and the       *)
(* hidden helper module __context.                                         *)
(*                                                                         *)
(* A macro invocation is modelled by the statements its transcriber emits, *)
(* one action per statement, and a recursive helper macro by one action    *)
(* per rule.  MutableMap, MergeObject and Kwargs live in crate::value,     *)
(* outside macros.rs; their behaviour is modelled from the specification   *)
(* (MapInsert, MapGet, MapKeys, MergeGet, MergeKeys, KwargsFromIter).      *)
(***************************************************************************)
EXTENDS Integers, Sequences, FiniteSets, TLC

\* ------------------------------------------------------------------ bounds
MaxKeys == 3
MaxCtx == 2
MaxReads == 2
MaxItems == 3
MaxCalls == 2

\* --------------------------------------------------------------- state
VARIABLES
    \* context!
    in_keys,      \* the `$key => $value` pairs of the invocation, in written order
    in_ctxs,      \* the `..$ctx` expressions of the invocation, already evaluated
    in_comma,     \* TRUE when the invocation writes no key and starts with a comma
    cpc,          \* position inside the expansion of context!
    ctx,          \* the MutableMap made by __context::make (its entries, in order)
    frozen,       \* TRUE once __context::build has wrapped the map into a Value
    merged_ctx,   \* the Vec of merge sources
    ci,           \* index of the next repetition to transcribe
    result,       \* the Value the invocation evaluates to
    firstEnum,    \* what the first reader of the frozen map enumerated
    lastEnum,     \* what the latest reader of the frozen map enumerated
    reads,        \* number of enumerations so far
    \* args!
    in_items,     \* the items of the invocation, in written order
    in_trailing,  \* TRUE when a comma follows the last item
    apc,          \* position inside the expansion of args!
    mode,         \* the rule `branch` ended in: "args" or "kwargs"
    rest,         \* the items of the tt bundle still to be matched
    has_kwargs,   \* the third argument of `peel`
    args,         \* Vec<Value> of the expansion
    kwargs,       \* Vec<(&str, Value)> of the expansion
    out,          \* the slice the invocation evaluates to
    \* thread_local_env / render!
    ENV,          \* per thread: the thread-local slot, 0 while not initialised
    tpc,          \* per thread: position inside thread_local_env / render!
    via_render,   \* per thread: TRUE when the call came from render!
    constructed,  \* number of Environment::new() calls started so far
    ready,        \* the instances whose construction has finished
    building,     \* per thread: the instance it is constructing, 0 if none
    built,        \* per thread: number of instances it has constructed
    handles,      \* per thread: the instances its calls returned, in order
    raced         \* TRUE once two threads ran Environment::new() at the same time

ctxVars == <<in_keys, in_ctxs, in_comma, cpc, ctx, frozen, merged_ctx, ci, result,
             firstEnum, lastEnum, reads>>

argVars == <<in_items, in_trailing, apc, mode, rest, has_kwargs, args, kwargs, out>>

envVars == <<ENV, tpc, via_render, constructed, ready, building, built, handles, raced>>

vars == <<ctxVars, argVars, envVars>>

\* ------------------------------------------------------- dynamic values
KeyNames == {"a", "b"}
AbsentKey == "c"
RawVals == {1, 2}

\* crate::value::Value, as far as the macros distinguish its shapes.
IntValue(x) == [kind |-> "int", v |-> x, entries |-> <<>>, sources |-> <<>>]
MapValue(es) == [kind |-> "map", v |-> 0, entries |-> es, sources |-> <<>>]
CtxValue == [kind |-> "ctx", v |-> 0, entries |-> <<>>, sources |-> <<>>]
MergeValue(srcs) == [kind |-> "merge", v |-> 0, entries |-> <<>>, sources |-> srcs]
Undefined == [kind |-> "undefined", v |-> 0, entries |-> <<>>, sources |-> <<>>]

Entry(k, x) == [key |-> k, val |-> x]
None == [found |-> FALSE, val |-> Undefined]
Some(x) == [found |-> TRUE, val |-> x]

\* Value::from_serialize of an integer expression.
FromSerialize(x) == IntValue(x)

\* Value::from of something that is a Value already.
ValueFrom(x) == x

\* ------------------------------------------- crate::value, from the spec
\* Position of `k` among the entries `es`, 0 when absent.
RECURSIVE IndexFrom(_, _, _)
IndexFrom(es, k, p) ==
    IF p > Len(es) THEN 0
    ELSE IF es[p].key = k THEN p
    ELSE IndexFrom(es, k, p + 1)

IndexOf(es, k) == IndexFrom(es, k, 1)

\* MutableMap::insert: a new key goes to the end, an existing key keeps its
\* position and takes the new value.
MapInsert(es, k, x) ==
    LET p == IndexOf(es, k)
    IN  IF p = 0 THEN Append(es, Entry(k, x))
        ELSE [es EXCEPT ![p] = Entry(k, x)]

MapGet(es, k) ==
    LET p == IndexOf(es, k)
    IN  IF p = 0 THEN None ELSE Some(es[p].val)

MapKeys(es) == [p \in 1..Len(es) |-> es[p].key]

\* The entries a Value exposes as a mapping.  The Value built by
\* __context::build shares the MutableMap; a Value that is not a mapping
\* exposes nothing.
EntriesOf(x) ==
    IF x.kind = "ctx" THEN ctx
    ELSE IF x.kind = "map" THEN x.entries
    ELSE <<>>

\* MergeObject::get_value: the first source that has the key answers.
RECURSIVE MergeGet(_, _)
MergeGet(srcs, k) ==
    IF srcs = <<>> THEN None
    ELSE LET r == MapGet(EntriesOf(Head(srcs)), k)
         IN  IF r.found THEN r ELSE MergeGet(Tail(srcs), k)

\* Appends to `acc` the keys of `ks` that `acc` does not hold yet.
RECURSIVE AppendUnseen(_, _)
AppendUnseen(acc, ks) ==
    IF ks = <<>> THEN acc
    ELSE IF \E p \in 1..Len(acc) : acc[p] = Head(ks)
         THEN AppendUnseen(acc, Tail(ks))
         ELSE AppendUnseen(Append(acc, Head(ks)), Tail(ks))

\* MergeObject::enumerate: the sources' keys in order, each key once.
RECURSIVE MergeKeysFrom(_, _)
MergeKeysFrom(acc, srcs) ==
    IF srcs = <<>> THEN acc
    ELSE MergeKeysFrom(AppendUnseen(acc, MapKeys(EntriesOf(Head(srcs)))), Tail(srcs))

MergeKeys(srcs) == MergeKeysFrom(<<>>, srcs)

ValueGet(x, k) ==
    IF x.kind = "merge" THEN MergeGet(x.sources, k)
    ELSE MapGet(EntriesOf(x), k)

ValueKeys(x) ==
    IF x.kind = "merge" THEN MergeKeys(x.sources)
    ELSE MapKeys(EntriesOf(x))

\* What a reader sees when it enumerates a Value: keys with their values.
Enumeration(x) ==
    LET ks == ValueKeys(x)
    IN  [p \in 1..Len(ks) |-> Entry(ks[p], ValueGet(x, ks[p]).val)]

\* -------------------------------------------------------- __context
\* __context::make
make == <<>>

\* Faulty variant of __context::add: the first insertion of a key wins.
addKeepFirst(m, key, value) ==
    IF IndexOf(m, key) = 0 THEN MapInsert(m, key, value) ELSE m

\* __context::add
add(m, key, value) == MapInsert(m, key, value)

\* __context::build: the map moves into the Value; no copy is made.
build(m) == CtxValue

\* ------------------------------------------------------------ context!
SeqsUpTo(S, n) == UNION {[1..m -> S] : m \in 0..n}

KeyPairs == {Entry(k, x) : k \in KeyNames, x \in RawVals}

\* The values merged in with `..`: maps in both key orders, with values that
\* differ between sources, and one value that is no mapping.
Sources ==
    { MapValue(<<>>),
      MapValue(<<Entry("a", IntValue(1))>>),
      MapValue(<<Entry("b", IntValue(1))>>),
      MapValue(<<Entry("a", IntValue(2)), Entry("b", IntValue(2))>>),
      MapValue(<<Entry("b", IntValue(2)), Entry("a", IntValue(2))>>),
      IntValue(1) }

NoResult == Undefined

\* Which arm of context! the invocation matches.  The arms are tried in order:
\* the first takes no tokens at all; the second takes the keys, then the
\* `, ..$ctx` groups, so it also takes an invocation without keys that starts
\* with a comma; the third takes an invocation that starts with `..`.
\* (The repetition `$(, .. $ctx:expr),*` of the second arm separates its
\* groups by a further comma; in_ctxs holds the captures whatever was written
\* between them.)
Arm ==
    IF in_keys # <<>> \/ in_comma THEN 2
    ELSE IF in_ctxs = <<>> THEN 1
    ELSE 3

\* Vec::push at the wrong end.
PushFront(vec, x) == <<x>> \o vec

\* merged_ctx.push(Value::from($ctx))
VecPush(vec, x) == Append(vec, ValueFrom(x))

\* merged_ctx.insert(0, ctx) done as a push.
InsertLast(vec, x) == Append(vec, x)

\* merged_ctx.insert(0, ctx)
InsertFirst(vec, x) == <<x>> \o vec

\* A repetition that stops one element early.
RepetitionDoneEarly(n, p) == p >= n

\* The `$( ... )*` repetition over n captures is exhausted at index p.
RepetitionDone(n, p) == p > n

\* context!() : build(make())
ContextEmpty ==
    /\ cpc = "start" /\ Arm = 1
    /\ ctx' = make
    /\ frozen' = TRUE
    /\ result' = build(ctx')
    /\ cpc' = "done"
    /\ UNCHANGED <<in_keys, in_ctxs, in_comma, merged_ctx, ci, firstEnum, lastEnum, reads>>
    /\ UNCHANGED <<argVars, envVars>>

\* let mut ctx = make();
ContextMake ==
    /\ cpc = "start" /\ Arm = 2
    /\ ctx' = make
    /\ ci' = 1
    /\ cpc' = "pairs"
    /\ UNCHANGED <<in_keys, in_ctxs, in_comma, frozen, merged_ctx, result, firstEnum, lastEnum, reads>>
    /\ UNCHANGED <<argVars, envVars>>

\* A __context_pair! that runs although the map is already built.
ContextPairLate ==
    /\ cpc \in {"pairs", "done"} /\ ~RepetitionDone(Len(in_keys), ci)
    /\ ctx' = add(ctx, in_keys[ci].key, FromSerialize(in_keys[ci].val))
    /\ ci' = IF cpc = "pairs" THEN ci + 1 ELSE ci
    /\ UNCHANGED <<in_keys, in_ctxs, in_comma, cpc, frozen, merged_ctx, result, firstEnum, lastEnum, reads>>
    /\ UNCHANGED <<argVars, envVars>>

\* __context_pair!(ctx, $key => $value): add(&mut ctx, stringify!($key), from_serialize(&$value))
ContextPair ==
    /\ cpc = "pairs" /\ ~RepetitionDone(Len(in_keys), ci)
    /\ ctx' = add(ctx, in_keys[ci].key, FromSerialize(in_keys[ci].val))
    /\ ci' = ci + 1
    /\ UNCHANGED <<in_keys, in_ctxs, in_comma, cpc, frozen, merged_ctx, result, firstEnum, lastEnum, reads>>
    /\ UNCHANGED <<argVars, envVars>>

\* let ctx = build(ctx); let mut merged_ctx = Vec::new();
ContextBuild ==
    /\ cpc = "pairs" /\ RepetitionDone(Len(in_keys), ci)
    /\ frozen' = TRUE
    /\ result' = build(ctx)
    /\ merged_ctx' = <<>>
    /\ ci' = 1
    /\ cpc' = "push"
    /\ UNCHANGED <<in_keys, in_ctxs, in_comma, ctx, firstEnum, lastEnum, reads>>
    /\ UNCHANGED <<argVars, envVars>>

\* merged_ctx.push(Value::from($ctx)), second arm
ContextPush ==
    /\ cpc = "push" /\ ~RepetitionDone(Len(in_ctxs), ci)
    /\ merged_ctx' = VecPush(merged_ctx, in_ctxs[ci])
    /\ ci' = ci + 1
    /\ UNCHANGED <<in_keys, in_ctxs, in_comma, cpc, ctx, frozen, result, firstEnum, lastEnum, reads>>
    /\ UNCHANGED <<argVars, envVars>>

\* if merged_ctx.is_empty() { ctx } else { merged_ctx.insert(0, ctx); MergeObject(merged_ctx) }
ContextFinish ==
    /\ cpc = "push" /\ RepetitionDone(Len(in_ctxs), ci)
    /\ IF merged_ctx = <<>>
       THEN /\ result' = result
            /\ merged_ctx' = merged_ctx
       ELSE /\ merged_ctx' = InsertFirst(merged_ctx, result)
            /\ result' = MergeValue(merged_ctx')
    /\ cpc' = "done"
    /\ UNCHANGED <<in_keys, in_ctxs, in_comma, ctx, frozen, ci, firstEnum, lastEnum, reads>>
    /\ UNCHANGED <<argVars, envVars>>

\* let mut ctx = Vec::new();  (third arm)
MergeNew ==
    /\ cpc = "start" /\ Arm = 3
    /\ merged_ctx' = <<>>
    /\ ci' = 1
    /\ cpc' = "mpush"
    /\ UNCHANGED <<in_keys, in_ctxs, in_comma, ctx, frozen, result, firstEnum, lastEnum, reads>>
    /\ UNCHANGED <<argVars, envVars>>

\* ctx.push(Value::from($ctx)), third arm
MergePush ==
    /\ cpc = "mpush" /\ ~RepetitionDone(Len(in_ctxs), ci)
    /\ merged_ctx' = VecPush(merged_ctx, in_ctxs[ci])
    /\ ci' = ci + 1
    /\ UNCHANGED <<in_keys, in_ctxs, in_comma, cpc, ctx, frozen, result, firstEnum, lastEnum, reads>>
    /\ UNCHANGED <<argVars, envVars>>

\* Value::from_object(MergeObject(ctx))
MergeFinish ==
    /\ cpc = "mpush" /\ RepetitionDone(Len(in_ctxs), ci)
    /\ result' = MergeValue(merged_ctx)
    /\ cpc' = "done"
    /\ UNCHANGED <<in_keys, in_ctxs, in_comma, ctx, frozen, merged_ctx, ci, firstEnum, lastEnum, reads>>
    /\ UNCHANGED <<argVars, envVars>>

\* A holder of the returned Value enumerates it.
ReadContext ==
    /\ cpc = "done" /\ reads < MaxReads
    /\ reads' = reads + 1
    /\ lastEnum' = Enumeration(result)
    /\ firstEnum' = IF reads = 0 THEN Enumeration(result) ELSE firstEnum
    /\ UNCHANGED <<in_keys, in_ctxs, in_comma, cpc, ctx, frozen, merged_ctx, ci, result>>
    /\ UNCHANGED <<argVars, envVars>>

ContextNext ==
    \/ ContextEmpty
    \/ ContextMake
    \/ ContextPair
    \/ ContextBuild
    \/ ContextPush
    \/ ContextFinish
    \/ MergeNew
    \/ MergePush
    \/ MergeFinish
    \/ ReadContext

\* ---------------------------------------------------------------- args!
Threads == {"t1", "t2"}
ArgNames == {"a", "b"}
KwVals == {1, 2, 3}

PosItem(x) == [kw |-> FALSE, name |-> "", val |-> x]
KwItem(n, x) == [kw |-> TRUE, name |-> n, val |-> x]
Items == {PosItem(x) : x \in RawVals} \cup {KwItem(n, x) : n \in ArgNames, x \in KwVals}

\* The value Kwargs::from_iter(..).into() yields.
KwargsValue(es) == [kind |-> "kwargs", v |-> 0, entries |-> es, sources |-> <<>>]

\* Kwargs::from_iter: the pairs are inserted into an ordered map one by one.
RECURSIVE KwargsFromIter(_, _)
KwargsFromIter(acc, pairs) ==
    IF pairs = <<>> THEN KwargsValue(acc)
    ELSE KwargsFromIter(MapInsert(acc, Head(pairs).key, Head(pairs).val), Tail(pairs))

\* The bundle `[X]`: one item and no comma after it.
IsSingle(r) == Len(r) = 1 /\ ~in_trailing

\* The bundle `[X, $($rest:tt)*]`: an item, a comma, and whatever follows.
HasMore(r) == Len(r) >= 2 \/ (Len(r) = 1 /\ in_trailing)

\* $kwargs.push(..) at the wrong end.
KwargsPushFront(vec, n, x) == <<Entry(n, FromSerialize(x))>> \o vec

\* $kwargs.push((stringify!($name), Value::from_serialize(&$expr)))
KwargsPush(vec, n, x) == Append(vec, Entry(n, FromSerialize(x)))

\* $args.push(Value::from_serialize(&$expr))
ArgsPush(vec, x) == Append(vec, FromSerialize(x))

\* The keyword bag put in front of the positional values.
PushBagFront(vec, pairs) == <<KwargsFromIter(<<>>, pairs)>> \o vec

\* args.push(Kwargs::from_iter(kwargs.into_iter()).into())
PushBag(vec, pairs) == Append(vec, KwargsFromIter(<<>>, pairs))

\* A keyword rule that hands `false` on.
HasKwargsStaysFalse == FALSE

\* The flag the keyword rule of `peel` hands to the recursive call: `true`.
HasKwargsAfterKeyword == TRUE

\* args!() => &[][..]
ArgsEmpty ==
    /\ apc = "start" /\ in_items = <<>>
    /\ out' = <<>>
    /\ apc' = "done"
    /\ UNCHANGED <<in_items, in_trailing, mode, rest, has_kwargs, args, kwargs>>
    /\ UNCHANGED <<ctxVars, envVars>>

\* args!($($arg:tt)*) => __args_helper!(branch [[$($arg)*]], [$($arg)*])
ArgsEnter ==
    /\ apc = "start" /\ in_items # <<>>
    /\ rest' = in_items
    /\ apc' = "branch"
    /\ UNCHANGED <<in_items, in_trailing, mode, has_kwargs, args, kwargs, out>>
    /\ UNCHANGED <<ctxVars, envVars>>

\* (branch [[]], $args) => args
BranchEnd ==
    /\ apc = "branch" /\ rest = <<>>
    /\ mode' = "args"
    /\ apc' = "entry"
    /\ UNCHANGED <<in_items, in_trailing, rest, has_kwargs, args, kwargs, out>>
    /\ UNCHANGED <<ctxVars, envVars>>

\* (branch [[$n:ident => $e:expr]], $args) => kwargs
BranchKeywordLast ==
    /\ apc = "branch" /\ IsSingle(rest) /\ Head(rest).kw
    /\ mode' = "kwargs"
    /\ apc' = "entry"
    /\ UNCHANGED <<in_items, in_trailing, rest, has_kwargs, args, kwargs, out>>
    /\ UNCHANGED <<ctxVars, envVars>>

\* (branch [[$n:ident => $e:expr, $($r:tt)*]], $args) => kwargs
BranchKeywordMore ==
    /\ apc = "branch" /\ HasMore(rest) /\ Head(rest).kw
    /\ mode' = "kwargs"
    /\ apc' = "entry"
    /\ UNCHANGED <<in_items, in_trailing, rest, has_kwargs, args, kwargs, out>>
    /\ UNCHANGED <<ctxVars, envVars>>

\* (branch [[$e:expr]], $args) => args
BranchExprLast ==
    /\ apc = "branch" /\ IsSingle(rest) /\ ~Head(rest).kw
    /\ mode' = "args"
    /\ apc' = "entry"
    /\ UNCHANGED <<in_items, in_trailing, rest, has_kwargs, args, kwargs, out>>
    /\ UNCHANGED <<ctxVars, envVars>>

\* (branch [[$e:expr, $($rest:tt)*]], $args) => branch [[$($rest)*]]
BranchExprMore ==
    /\ apc = "branch" /\ HasMore(rest) /\ ~Head(rest).kw
    /\ rest' = Tail(rest)
    /\ UNCHANGED <<in_items, in_trailing, apc, mode, has_kwargs, args, kwargs, out>>
    /\ UNCHANGED <<ctxVars, envVars>>

\* (args [..]): let mut args = Vec::new(); peel args, args, false, [..]
\* (kwargs [..]): let mut args = Vec::new(); let mut kwargs = Vec::new();
\*                peel args, kwargs, false, [..]
HelperEntry ==
    /\ apc = "entry"
    /\ args' = <<>>
    /\ kwargs' = <<>>
    /\ has_kwargs' = FALSE
    /\ rest' = in_items
    /\ apc' = "peel"
    /\ UNCHANGED <<in_items, in_trailing, mode, out>>
    /\ UNCHANGED <<ctxVars, envVars>>

\* (peel $args, $kwargs, $has_kwargs, []) => {}
PeelEnd ==
    /\ apc = "peel" /\ rest = <<>>
    /\ apc' = "finish"
    /\ UNCHANGED <<in_items, in_trailing, mode, rest, has_kwargs, args, kwargs, out>>
    /\ UNCHANGED <<ctxVars, envVars>>

\* (peel $args, $kwargs, $has_kwargs, [$name:ident => $expr:expr])
\* Under the `args` rule $kwargs names the Vec<Value>, which takes no pair.
PeelKeywordLast ==
    /\ apc = "peel" /\ IsSingle(rest) /\ Head(rest).kw
    /\ IF mode = "kwargs"
       THEN /\ kwargs' = KwargsPush(kwargs, Head(rest).name, Head(rest).val)
            /\ apc' = "finish"
       ELSE /\ kwargs' = kwargs
            /\ apc' = "error"
    /\ rest' = <<>>
    /\ UNCHANGED <<in_items, in_trailing, mode, has_kwargs, args, out>>
    /\ UNCHANGED <<ctxVars, envVars>>

\* (peel $args, $kwargs, $has_kwargs, [$name:ident => $expr:expr, $($rest:tt)*])
PeelKeywordMore ==
    /\ apc = "peel" /\ HasMore(rest) /\ Head(rest).kw
    /\ IF mode = "kwargs"
       THEN /\ kwargs' = KwargsPush(kwargs, Head(rest).name, Head(rest).val)
            /\ apc' = apc
       ELSE /\ kwargs' = kwargs
            /\ apc' = "error"
    /\ has_kwargs' = HasKwargsAfterKeyword
    /\ rest' = Tail(rest)
    /\ UNCHANGED <<in_items, in_trailing, mode, args, out>>
    /\ UNCHANGED <<ctxVars, envVars>>

\* (peel $args, $kwargs, false, [$expr:expr])
PeelExprLast ==
    /\ apc = "peel" /\ IsSingle(rest) /\ ~Head(rest).kw
    /\ has_kwargs = FALSE
    /\ args' = ArgsPush(args, Head(rest).val)
    /\ rest' = <<>>
    /\ apc' = "finish"
    /\ UNCHANGED <<in_items, in_trailing, mode, has_kwargs, kwargs, out>>
    /\ UNCHANGED <<ctxVars, envVars>>

\* (peel $args, $kwargs, false, [$expr:expr, $($rest:tt)*])
PeelExprMore ==
    /\ apc = "peel" /\ HasMore(rest) /\ ~Head(rest).kw
    /\ has_kwargs = FALSE
    /\ args' = ArgsPush(args, Head(rest).val)
    /\ rest' = Tail(rest)
    /\ UNCHANGED <<in_items, in_trailing, apc, mode, has_kwargs, kwargs, out>>
    /\ UNCHANGED <<ctxVars, envVars>>

\* No rule of `peel` takes an expression once $has_kwargs is `true`: the
\* expansion fails and the invocation does not compile.
PeelNoRule ==
    /\ apc = "peel" /\ rest # <<>> /\ ~Head(rest).kw
    /\ has_kwargs = TRUE
    /\ apc' = "error"
    /\ UNCHANGED <<in_items, in_trailing, mode, rest, has_kwargs, args, kwargs, out>>
    /\ UNCHANGED <<ctxVars, envVars>>

\* (args [..]): &(&{args})[..]
ArgsFinish ==
    /\ apc = "finish" /\ mode = "args"
    /\ out' = args
    /\ apc' = "done"
    /\ UNCHANGED <<in_items, in_trailing, mode, rest, has_kwargs, args, kwargs>>
    /\ UNCHANGED <<ctxVars, envVars>>

\* (kwargs [..]): args.push(Kwargs::from_iter(kwargs.into_iter()).into()); &(&{args})[..]
KwargsFinish ==
    /\ apc = "finish" /\ mode = "kwargs"
    /\ args' = PushBag(args, kwargs)
    /\ out' = args'
    /\ apc' = "done"
    /\ UNCHANGED <<in_items, in_trailing, mode, rest, has_kwargs, kwargs>>
    /\ UNCHANGED <<ctxVars, envVars>>

ArgsNext ==
    \/ ArgsEmpty
    \/ ArgsEnter
    \/ BranchEnd
    \/ BranchKeywordLast
    \/ BranchKeywordMore
    \/ BranchExprLast
    \/ BranchExprMore
    \/ HelperEntry
    \/ PeelEnd
    \/ PeelKeywordLast
    \/ PeelKeywordMore
    \/ PeelExprLast
    \/ PeelExprMore
    \/ PeelNoRule
    \/ ArgsFinish
    \/ KwargsFinish

\* ------------------------------------------- thread_local_env / render!
\* A slot that counts as uninitialised on every access.
SlotAlwaysLazy(slot) == TRUE

\* thread_local!: the initialiser runs on the thread's first access only.
SlotUninitialised(slot) == slot = 0

\* A caller enters thread_local_env(), directly or through render!($tmpl, ..).
thread_local_env(t, r) ==
    /\ tpc[t] = "idle" /\ Len(handles[t]) < MaxCalls
    /\ tpc' = [tpc EXCEPT ![t] = "with"]
    /\ via_render' = [via_render EXCEPT ![t] = r]
    /\ UNCHANGED <<ENV, constructed, ready, building, built, handles, raced>>
    /\ UNCHANGED <<ctxVars, argVars>>

\* ENV.with on an uninitialised slot: Environment::new() starts.
EnvNewBegin(t) ==
    /\ tpc[t] = "with" /\ SlotUninitialised(ENV[t])
    /\ constructed' = constructed + 1
    /\ building' = [building EXCEPT ![t] = constructed + 1]
    /\ built' = [built EXCEPT ![t] = built[t] + 1]
    /\ tpc' = [tpc EXCEPT ![t] = "new"]
    /\ raced' = (raced \/ \E u \in Threads \ {t} : tpc[u] = "new")
    /\ UNCHANGED <<ENV, via_render, ready, handles>>
    /\ UNCHANGED <<ctxVars, argVars>>

\* Rc::new(Environment::new()) is stored into the thread's slot.
EnvNewEnd(t) ==
    /\ tpc[t] = "new"
    /\ ENV' = [ENV EXCEPT ![t] = building[t]]
    /\ ready' = ready \cup {building[t]}
    /\ building' = [building EXCEPT ![t] = 0]
    /\ tpc' = [tpc EXCEPT ![t] = "init"]
    /\ UNCHANGED <<via_render, constructed, built, handles, raced>>
    /\ UNCHANGED <<ctxVars, argVars>>

\* ENV.with(|x| x.clone()): the caller gets a handle to the slot's instance.
EnvClone(t) ==
    /\ tpc[t] \in {"with", "init"}
    /\ tpc[t] = "with" => ~SlotUninitialised(ENV[t])
    /\ handles' = [handles EXCEPT ![t] = Append(handles[t], ENV[t])]
    /\ tpc' = [tpc EXCEPT ![t] = IF via_render[t] THEN "render" ELSE "idle"]
    /\ UNCHANGED <<ENV, via_render, constructed, ready, building, built, raced>>
    /\ UNCHANGED <<ctxVars, argVars>>

\* render!: ($env).render_str($tmpl, context!{..}, &[]) on the handle.
RenderStr(t) ==
    /\ tpc[t] = "render"
    /\ tpc' = [tpc EXCEPT ![t] = "idle"]
    /\ via_render' = [via_render EXCEPT ![t] = FALSE]
    /\ UNCHANGED <<ENV, constructed, ready, building, built, handles, raced>>
    /\ UNCHANGED <<ctxVars, argVars>>

EnvNext ==
    \E t \in Threads :
        \/ \E r \in BOOLEAN : thread_local_env(t, r)
        \/ EnvNewBegin(t)
        \/ EnvNewEnd(t)
        \/ EnvClone(t)
        \/ RenderStr(t)

\* ------------------------------------------------------- specifications
\* One invocation of context!, on any keys and merged values within the bounds.
ContextInit ==
    /\ in_keys \in SeqsUpTo(KeyPairs, MaxKeys)
    /\ in_ctxs \in SeqsUpTo(Sources, MaxCtx)
    /\ in_comma \in (IF in_keys = <<>> THEN BOOLEAN ELSE {FALSE})
    /\ cpc = "start"
    /\ ctx = <<>>
    /\ frozen = FALSE
    /\ merged_ctx = <<>>
    /\ ci = 1
    /\ result = NoResult
    /\ firstEnum = <<>>
    /\ lastEnum = <<>>
    /\ reads = 0
    /\ in_items = <<>>
    /\ in_trailing = FALSE
    /\ apc = "start"
    /\ mode = "none"
    /\ rest = <<>>
    /\ has_kwargs = FALSE
    /\ args = <<>>
    /\ kwargs = <<>>
    /\ out = <<>>
    /\ ENV = [t \in Threads |-> 0]
    /\ tpc = [t \in Threads |-> "idle"]
    /\ via_render = [t \in Threads |-> FALSE]
    /\ constructed = 0
    /\ ready = {}
    /\ building = [t \in Threads |-> 0]
    /\ built = [t \in Threads |-> 0]
    /\ handles = [t \in Threads |-> <<>>]
    /\ raced = FALSE

\* One invocation of args!, on any item list within the bounds.
ArgsInit ==
    /\ in_items \in SeqsUpTo(Items, MaxItems)
    /\ in_trailing \in (IF in_items = <<>> THEN {FALSE} ELSE BOOLEAN)
    /\ apc = "start"
    /\ mode = "none"
    /\ rest = <<>>
    /\ has_kwargs = FALSE
    /\ args = <<>>
    /\ kwargs = <<>>
    /\ out = <<>>
    /\ in_keys = <<>>
    /\ in_ctxs = <<>>
    /\ in_comma = FALSE
    /\ cpc = "start"
    /\ ctx = <<>>
    /\ frozen = FALSE
    /\ merged_ctx = <<>>
    /\ ci = 1
    /\ result = NoResult
    /\ firstEnum = <<>>
    /\ lastEnum = <<>>
    /\ reads = 0
    /\ ENV = [t \in Threads |-> 0]
    /\ tpc = [t \in Threads |-> "idle"]
    /\ via_render = [t \in Threads |-> FALSE]
    /\ constructed = 0
    /\ ready = {}
    /\ building = [t \in Threads |-> 0]
    /\ built = [t \in Threads |-> 0]
    /\ handles = [t \in Threads |-> <<>>]
    /\ raced = FALSE

\* Threads that have not touched the thread-local ENV yet.
EnvInit ==
    /\ ENV = [t \in Threads |-> 0]
    /\ tpc = [t \in Threads |-> "idle"]
    /\ via_render = [t \in Threads |-> FALSE]
    /\ constructed = 0
    /\ ready = {}
    /\ building = [t \in Threads |-> 0]
    /\ built = [t \in Threads |-> 0]
    /\ handles = [t \in Threads |-> <<>>]
    /\ raced = FALSE
    /\ in_keys = <<>>
    /\ in_ctxs = <<>>
    /\ in_comma = FALSE
    /\ cpc = "start"
    /\ ctx = <<>>
    /\ frozen = FALSE
    /\ merged_ctx = <<>>
    /\ ci = 1
    /\ result = NoResult
    /\ firstEnum = <<>>
    /\ lastEnum = <<>>
    /\ reads = 0
    /\ in_items = <<>>
    /\ in_trailing = FALSE
    /\ apc = "start"
    /\ mode = "none"
    /\ rest = <<>>
    /\ has_kwargs = FALSE
    /\ args = <<>>
    /\ kwargs = <<>>
    /\ out = <<>>

SpecContext == ContextInit /\ [][ContextNext]_vars

SpecArgs == ArgsInit /\ [][ArgsNext]_vars

SpecEnv == EnvInit /\ [][EnvNext]_vars

\* ------------------------------------------------------------- properties
AllKeys == KeyNames \cup {AbsentKey}

\* Whether the mapping value `c` has an entry for `k`, and that entry's value.
Holds(c, k) == \E p \in DOMAIN c.entries : c.entries[p].key = k
PosIn(c, k) == CHOOSE p \in DOMAIN c.entries : c.entries[p].key = k
ValOf(c, k) == c.entries[PosIn(c, k)].val

\* The lowest index of a value of `S` that has `k`.
FirstSrc(S, k) ==
    CHOOSE i \in DOMAIN S : Holds(S[i], k) /\ \A j \in 1..(i - 1) : ~Holds(S[j], k)

\* What lookup of `k` through the ordered sources `S` has to give.
FirstSourceAnswer(S, k) ==
    IF \E i \in DOMAIN S : Holds(S[i], k)
    THEN Some(ValOf(S[FirstSrc(S, k)], k))
    ELSE None

ExplicitKeys == {in_keys[p].key : p \in DOMAIN in_keys}
FirstPos(k) ==
    CHOOSE p \in DOMAIN in_keys :
        in_keys[p].key = k /\ \A q \in 1..(p - 1) : in_keys[q].key # k
LastPos(k) ==
    CHOOSE p \in DOMAIN in_keys :
        in_keys[p].key = k /\ \A q \in (p + 1)..Len(in_keys) : in_keys[q].key # k

\* The sources of the Merge View as the invocation lists them: the map frozen
\* from the explicit keys first when keys are written, then the `..` values.
WrittenSources ==
    IF Arm = 2 THEN <<MapValue(ctx)>> \o in_ctxs ELSE in_ctxs

\* C1: a Merge View over the `..` values S1..Sn answers get(k) with the value
\* of the lowest-indexed Si that has k, and with "not found" exactly when no
\* Si has k (every key, when n = 0).
C1_GetFirstSourceWins ==
    (cpc = "done" /\ Arm # 2) =>
        \A k \in AllKeys : ValueGet(result, k) = FirstSourceAnswer(in_ctxs, k)

C1_Witness ==
    /\ cpc = "done" /\ Arm = 3 /\ Len(in_ctxs) >= 2
    /\ Holds(in_ctxs[1], "a") /\ Holds(in_ctxs[2], "a")
    /\ ValOf(in_ctxs[1], "a") # ValOf(in_ctxs[2], "a")
    /\ ValueGet(result, "a") = Some(ValOf(in_ctxs[1], "a"))
    /\ ~ValueGet(result, AbsentKey).found

\* C2: keys() of a Merge View lists each distinct key once, by the first
\* source that has it and, inside one source, by that source's own order.
C2_KeysFirstAppearance ==
    (cpc = "done" /\ result.kind = "merge") =>
        LET ks == ValueKeys(result)
            S == WrittenSources
        IN  /\ \A p, q \in DOMAIN ks : p # q => ks[p] # ks[q]
            /\ {ks[p] : p \in DOMAIN ks} =
                   {k \in AllKeys : \E i \in DOMAIN S : Holds(S[i], k)}
            /\ \A p, q \in DOMAIN ks :
                   p < q =>
                       LET i == FirstSrc(S, ks[p])
                           j == FirstSrc(S, ks[q])
                       IN  \/ i < j
                           \/ i = j /\ PosIn(S[i], ks[p]) < PosIn(S[j], ks[q])

C2_Witness ==
    /\ cpc = "done" /\ Arm = 3 /\ Len(in_ctxs) = 2
    /\ in_ctxs[1] = MapValue(<<Entry("b", IntValue(1))>>)
    /\ in_ctxs[2] = MapValue(<<Entry("a", IntValue(2)), Entry("b", IntValue(2))>>)
    /\ ValueKeys(result) = <<"b", "a">>

\* C3: the frozen Ordered Context Map enumerates each inserted key once, in
\* the order of first insertion, with the value of the key's last insertion.
C3_FirstInsertionOrderLastValue ==
    (frozen /\ Arm # 3) =>
        LET e == Enumeration(build(ctx))
        IN  /\ Len(e) = Cardinality(ExplicitKeys)
            /\ {e[p].key : p \in DOMAIN e} = ExplicitKeys
            /\ \A p, q \in DOMAIN e : p < q => FirstPos(e[p].key) < FirstPos(e[q].key)
            /\ \A p \in DOMAIN e :
                   e[p].val = FromSerialize(in_keys[LastPos(e[p].key)].val)

C3_Witness ==
    /\ frozen /\ Len(in_keys) = 3
    /\ in_keys[1].key = in_keys[3].key /\ in_keys[1].key # in_keys[2].key
    /\ in_keys[1].val # in_keys[3].val
    /\ Enumeration(build(ctx)) =
           <<Entry(in_keys[1].key, FromSerialize(in_keys[3].val)),
             Entry(in_keys[2].key, FromSerialize(in_keys[2].val))>>

C8_SingleSourceEquivalent ==
    (cpc = "done" /\ Arm = 3 /\ Len(in_ctxs) = 1 /\ in_ctxs[1].kind = "map") =>
        /\ \A k \in AllKeys : ValueGet(result, k) = ValueGet(in_ctxs[1], k)
        /\ ValueKeys(result) = ValueKeys(in_ctxs[1])

C8_Witness ==
    /\ cpc = "done" /\ Arm = 3 /\ Len(in_ctxs) = 1
    /\ in_ctxs[1].kind = "map" /\ Len(in_ctxs[1].entries) = 2
    /\ ValueKeys(result) = <<"b", "a">>

\* C10: every add precedes the single build; once the map is frozen no step
\* changes it, and every enumeration of the frozen value reads the same
\* entries in the same order.
C10_FrozenMapNeverChanges ==
    [][ /\ frozen => (frozen' /\ ctx' = ctx)
        /\ reads' > 0 => lastEnum' = firstEnum' ]_vars

C10_Witness ==
    /\ frozen /\ reads = 2 /\ Len(ctx) = 2 /\ Len(in_keys) = 3
    /\ lastEnum = firstEnum /\ Len(lastEnum) >= 2

\* The items of the invocation by kind, in written order.
PosItems == SelectSeq(in_items, LAMBDA it : ~it.kw)
KwItems == SelectSeq(in_items, LAMBDA it : it.kw)

\* Some positional item is written after a keyword item.
PosAfterKw ==
    \E p, q \in DOMAIN in_items : p < q /\ in_items[p].kw /\ ~in_items[q].kw

\* The positional values lead in their written order, and one keyword bag
\* follows them exactly when a keyword item was written.
PositionalThenOneBag ==
    LET n == Len(PosItems)
    IN  /\ Len(out) = n + (IF KwItems = <<>> THEN 0 ELSE 1)
        /\ \A p \in 1..n : out[p] = FromSerialize(PosItems[p].val)
        /\ KwItems # <<>> => out[n + 1].kind = "kwargs"
        /\ Cardinality({p \in DOMAIN out : out[p].kind = "kwargs"}) =
               (IF KwItems = <<>> THEN 0 ELSE 1)

\* C4: the output of args! is the positional values in written order, then
\* exactly one keyword bag if a keyword item was written and nothing
\* otherwise; zero items give the empty sequence.
C4_PositionalPrefixOneTrailingBag ==
    apc = "done" =>
        /\ PositionalThenOneBag
        /\ in_items = <<>> => out = <<>>

C4_Witness ==
    /\ apc = "done" /\ Len(PosItems) = 2 /\ Len(KwItems) = 1
    /\ PosItems[1].val # PosItems[2].val
    /\ Len(out) = 3 /\ out[3].kind = "kwargs"

\* C5 as stated: every interleaving of positional and keyword items is
\* accepted and gives the positional prefix and one trailing bag.
C5_AnyInterleavingAccepted ==
    apc \in {"done", "error"} => (apc = "done" /\ PositionalThenOneBag)

\* C5, amended: an item list is accepted exactly when no positional item is
\* written after a keyword item; an accepted list gives the positional
\* values in written order and all keyword items in one trailing bag.
C5_KeywordsAfterPositionals ==
    apc \in {"done", "error"} =>
        /\ (apc = "error") <=> PosAfterKw
        /\ apc = "done" =>
               /\ SubSeq(out, 1, Len(PosItems)) =
                      [p \in 1..Len(PosItems) |-> FromSerialize(PosItems[p].val)]
               /\ Len(out) - Len(PosItems) = (IF KwItems = <<>> THEN 0 ELSE 1)

C5_Witness ==
    /\ apc = "done" /\ Len(PosItems) = 1 /\ Len(KwItems) = 2
    /\ ~in_items[1].kw
    /\ Len(out) = 2 /\ Len(out[2].entries) = 2

\* C9: the keyword bag holds each distinct name once, at the place the name
\* was first written, with the value of the last item of that name.
C9_BagLastWriteFirstPosition ==
    (apc = "done" /\ KwItems # <<>>) =>
        LET bag == out[Len(out)].entries
            First(n) == CHOOSE p \in DOMAIN KwItems :
                            KwItems[p].name = n /\ \A q \in 1..(p - 1) : KwItems[q].name # n
            Last(n) == CHOOSE p \in DOMAIN KwItems :
                           KwItems[p].name = n
                           /\ \A q \in (p + 1)..Len(KwItems) : KwItems[q].name # n
        IN  /\ out[Len(out)].kind = "kwargs"
            /\ \A p, q \in DOMAIN bag : p # q => bag[p].key # bag[q].key
            /\ {bag[p].key : p \in DOMAIN bag} = {KwItems[p].name : p \in DOMAIN KwItems}
            /\ \A p, q \in DOMAIN bag : p < q => First(bag[p].key) < First(bag[q].key)
            /\ \A p \in DOMAIN bag :
                   bag[p].val = FromSerialize(KwItems[Last(bag[p].key)].val)

C9_Witness ==
    /\ apc = "done"
    /\ in_items = <<KwItem("a", 1), KwItem("b", 2), KwItem("a", 3)>>
    /\ out = <<KwargsValue(<<Entry("a", IntValue(3)), Entry("b", IntValue(2))>>)>>

\* C6: a thread constructs the default Environment at most once, on its first
\* call; every call of the thread returns that one finished instance, and
\* no two threads share an instance.
C6_OneEnvironmentPerThread ==
    \A t \in Threads :
        /\ built[t] <= 1
        /\ handles[t] # <<>> => built[t] = 1
        /\ \A p \in DOMAIN handles[t] :
               /\ handles[t][p] # 0
               /\ handles[t][p] = ENV[t]
               /\ handles[t][p] \in ready
        /\ \A u \in Threads \ {t} : ENV[t] # 0 => ENV[t] # ENV[u]

C6_Witness ==
    /\ Len(handles["t1"]) = 2 /\ Len(handles["t2"]) = 2
    /\ handles["t1"][1] = handles["t1"][2]
    /\ handles["t1"][1] # handles["t2"][1]
    /\ constructed = 2
    /\ raced

====
